---- MODULE Spec2Model ----
(***************************************************************************)
(* A model of finetune_deepseek.py: the fill-in-the-middle prompt          *)
(* formatter, the tokenize-and-mask preprocessor, the batch collator and   *)
(* the per-rank control flow of train() with its barrier around the        *)
(* dataset map.                                                            *)
(*                                                                         *)
(* Text is a sequence of one-character strings.  Token ids are integers.   *)
(***************************************************************************)
EXTENDS Integers, Sequences, FiniteSets, TLC

VARIABLES
    masked_func,    \* build_masked_func: the argument
    fmt_result,     \* build_masked_func: what the call produced
    sources,        \* preprocess: the prompt strings
    targets,        \* preprocess: the target strings
    data_dict,      \* preprocess: the returned dict(input_ids, labels), or NoResult
    instances,      \* collator: the rows handed to __call__
    collated,       \* collator: the returned dict, or NoResult
    world,          \* train: number of processes of the launch
    distributed,    \* train: FALSE for a plain python run (local_rank = -1)
    pc,             \* train: each process's position in train()
    log,            \* train: each process's completed orchestration steps
    arrived,        \* train: processes that have entered torch.distributed.barrier()
    barrier_calls,  \* train: how often each process has called the barrier
    cached,         \* train: the dataset map's cache file exists
    builders        \* train: processes inside map() that are writing the cache

vars == <<masked_func, fmt_result, sources, targets, data_dict, instances,
          collated, world, distributed, pc, log, arrived, barrier_calls,
          cached, builders>>

fmt_vars == <<masked_func, fmt_result>>
data_vars == <<sources, targets, data_dict, instances, collated>>
train_vars == <<world, distributed, pc, log, arrived, barrier_calls, cached, builders>>

\* a result slot before the call that fills it
NoResult == [called |-> FALSE]

\* ------------------------------------------------------------------------
\* Bounds
\* ------------------------------------------------------------------------
MaxStrLen == 6      \* longest masked-code string given to build_masked_func
MaxTextLen == 1     \* longest prompt and longest target given to preprocess
MaxExamples == 2    \* most examples in one preprocess call and one batch
MaxRanks == 3       \* most processes in one launch

\* ------------------------------------------------------------------------
\* Text helpers (Python str semantics)
\* ------------------------------------------------------------------------
StartsWith(s, p) ==
    /\ Len(p) <= Len(s)
    /\ SubSeq(s, 1, Len(p)) = p

EndsWith(s, p) ==
    /\ Len(p) <= Len(s)
    /\ SubSeq(s, Len(s) - Len(p) + 1, Len(s)) = p

\* the positions at which p occurs in s
Occurrences(s, p) ==
    {i \in 1..(Len(s) - Len(p) + 1) : SubSeq(s, i, i + Len(p) - 1) = p}

\* str.count(p): non-overlapping occurrences, scanning left to right
RECURSIVE StrCount(_, _)
StrCount(s, p) ==
    IF Len(s) < Len(p) THEN 0
    ELSE IF StartsWith(s, p)
         THEN 1 + StrCount(SubSeq(s, Len(p) + 1, Len(s)), p)
         ELSE StrCount(Tail(s), p)

\* str.replace(old, new): every non-overlapping occurrence, left to right
RECURSIVE StrReplace(_, _, _)
StrReplace(s, old, new) ==
    IF Len(s) < Len(old) THEN s
    ELSE IF StartsWith(s, old)
         THEN new \o StrReplace(SubSeq(s, Len(old) + 1, Len(s)), old, new)
         ELSE <<Head(s)>> \o StrReplace(Tail(s), old, new)

\* str.replace that stops after the first occurrence (count = 1)
RECURSIVE StrReplaceFirst(_, _, _)
StrReplaceFirst(s, old, new) ==
    IF Len(s) < Len(old) THEN s
    ELSE IF StartsWith(s, old)
         THEN new \o SubSeq(s, Len(old) + 1, Len(s))
         ELSE <<Head(s)>> \o StrReplaceFirst(Tail(s), old, new)

\* ------------------------------------------------------------------------
\* Sentinels.  Each of the program's markers is an opening bracket, a body
\* without brackets and a closing bracket; the bodies are pairwise
\* different.  The model keeps that shape and shortens each body to one
\* character.
\* ------------------------------------------------------------------------
BEGIN_TOKEN == <<"<", "b", ">">>
FILL_TOKEN == <<"<", "h", ">">>
END_TOKEN == <<"<", "e", ">">>
PLACEHOLDER == <<"<", "F", ">">>

\* characters a masked-code string is made of
Chars == {"<", ">", "F", "h", "x"}

Strings(n) == UNION {[1..k -> Chars] : k \in 0..n}

\* ------------------------------------------------------------------------
\* build_masked_func
\* ------------------------------------------------------------------------
build_masked_func_first_only(masked) ==
    BEGIN_TOKEN \o StrReplaceFirst(masked, PLACEHOLDER, FILL_TOKEN) \o END_TOKEN

build_masked_func_no_end(masked) ==
    BEGIN_TOKEN \o StrReplace(masked, PLACEHOLDER, FILL_TOKEN)

build_masked_func(masked) ==
    BEGIN_TOKEN \o StrReplace(masked, PLACEHOLDER, FILL_TOKEN) \o END_TOKEN

\* a call of build_masked_func: str.replace and + raise nothing on str
CallBuildMaskedFunc ==
    /\ ~fmt_result.called
    /\ fmt_result' = [called |-> TRUE, raised |-> FALSE,
                      value |-> build_masked_func(masked_func)]
    /\ UNCHANGED <<masked_func, data_vars, train_vars>>

InitData0 ==
    /\ sources = <<>>
    /\ targets = <<>>
    /\ data_dict = NoResult
    /\ instances = <<>>
    /\ collated = NoResult

InitTrain0 ==
    /\ world = 1
    /\ distributed = FALSE
    /\ pc = [p \in {0} |-> "load_tokenizer"]
    /\ log = [p \in {0} |-> <<>>]
    /\ arrived = {}
    /\ barrier_calls = [p \in {0} |-> 0]
    /\ cached = FALSE
    /\ builders = {}

InitFmt ==
    /\ masked_func \in Strings(MaxStrLen)
    /\ fmt_result = NoResult
    /\ InitData0
    /\ InitTrain0

NextFmt == CallBuildMaskedFunc

SpecFmt == InitFmt /\ [][NextFmt]_vars

\* ------------------------------------------------------------------------
\* The tokenizer, as _tokenize_fn uses it.  A text is a sequence of pieces:
\* "a" is ordinary text, "p" is the pad token written out in the text (a
\* tokenizer maps the literal text of a special token to that token's id).
\* Two adjacent "a" merge into one token, so the tokens of a concatenation
\* are not the concatenation of the tokens.
\* ------------------------------------------------------------------------
IGNORE_INDEX == -100
pad_token_id == 0
bos_token_id == 1
A_ID == 2
AA_ID == 3
model_max_length == 2

Pieces == {"a", "p"}

Texts(n) == UNION {[1..k -> Pieces] : k \in 0..n}

RECURSIVE Encode(_)
Encode(text) ==
    IF text = <<>> THEN <<>>
    ELSE IF Len(text) >= 2 /\ text[1] = "a" /\ text[2] = "a"
         THEN <<AA_ID>> \o Encode(SubSeq(text, 3, Len(text)))
         ELSE <<(IF Head(text) = "p" THEN pad_token_id ELSE A_ID)>>
              \o Encode(Tail(text))

Min(a, b) == IF a <= b THEN a ELSE b

\* tokenizer(text, padding="longest", max_length=..., truncation=True) on one
\* text: the sequence starts with the bos token, is cut to max_length on the
\* right, and "longest" of a single text adds no padding
TokenizerNoTruncation(text) == <<bos_token_id>> \o Encode(text)

Tokenizer(text) ==
    LET ids == <<bos_token_id>> \o Encode(text)
    IN  SubSeq(ids, 1, Min(Len(ids), model_max_length))

\* tensor.ne(pad_token_id).sum()
CountNe(ids, v) == Cardinality({j \in 1..Len(ids) : ids[j] # v})

_tokenize_fn(strings) ==
    LET tokenized_list == [i \in 1..Len(strings) |-> Tokenizer(strings[i])]
        lens == [i \in 1..Len(strings) |->
                    CountNe(tokenized_list[i], pad_token_id)]
    IN  [input_ids |-> tokenized_list, labels |-> tokenized_list,
         input_ids_lens |-> lens, labels_lens |-> lens]

\* label[:source_len] = IGNORE_INDEX on a copy of ids
MaskPrefix(ids, source_len) ==
    [j \in 1..Len(ids) |-> IF j <= source_len THEN IGNORE_INDEX ELSE ids[j]]

\* the slice assignment off by one: label[:source_len - 1]
MaskPrefixShort(ids, source_len) ==
    [j \in 1..Len(ids) |-> IF j <= source_len - 1 THEN IGNORE_INDEX ELSE ids[j]]

preprocess_short_mask(srcs, tgts) ==
    LET n == Min(Len(srcs), Len(tgts))
        examples == [i \in 1..n |-> srcs[i] \o tgts[i]]
        examples_tokenized == _tokenize_fn(examples)
        sources_tokenized == _tokenize_fn(srcs)
        input_ids == examples_tokenized.input_ids
    IN  [input_ids |-> input_ids,
         labels |-> [i \in 1..n |->
             MaskPrefixShort(input_ids[i], sources_tokenized.input_ids_lens[i])]]

preprocess(srcs, tgts) ==
    LET n == Min(Len(srcs), Len(tgts))
        examples == [i \in 1..n |-> srcs[i] \o tgts[i]]
        examples_tokenized == _tokenize_fn(examples)
        sources_tokenized == _tokenize_fn(srcs)
        input_ids == examples_tokenized.input_ids
    IN  [input_ids |-> input_ids,
         labels |-> [i \in 1..n |->
             MaskPrefix(input_ids[i], sources_tokenized.input_ids_lens[i])]]

\* ------------------------------------------------------------------------
\* DataCollatorForSupervisedDataset.__call__
\* ------------------------------------------------------------------------
MaxOf(S) == CHOOSE m \in S : \A x \in S : x <= m

\* padding on the left instead of the right
pad_sequence_left(seqs, v) ==
    LET width == MaxOf({Len(seqs[i]) : i \in 1..Len(seqs)})
    IN  [i \in 1..Len(seqs) |->
            [j \in 1..width |->
                IF j > width - Len(seqs[i])
                THEN seqs[i][j - (width - Len(seqs[i]))] ELSE v]]

\* torch.nn.utils.rnn.pad_sequence(seqs, batch_first=True, padding_value=v)
pad_sequence(seqs, v) ==
    LET width == MaxOf({Len(seqs[i]) : i \in 1..Len(seqs)})
    IN  [i \in 1..Len(seqs) |->
            [j \in 1..width |-> IF j <= Len(seqs[i]) THEN seqs[i][j] ELSE v]]

\* tensor.ne(v), elementwise
Ne(rows, v) ==
    [i \in 1..Len(rows) |-> [j \in 1..Len(rows[i]) |-> rows[i][j] # v]]

\* the labels padded with the pad id instead of IGNORE_INDEX
collate_pad_labels_with_pad_id(insts) ==
    LET input_ids == pad_sequence([i \in 1..Len(insts) |-> insts[i].input_ids],
                                  pad_token_id)
        labels == pad_sequence([i \in 1..Len(insts) |-> insts[i].labels],
                               pad_token_id)
    IN  [input_ids |-> input_ids, labels |-> labels,
         attention_mask |-> Ne(input_ids, pad_token_id)]

collate(insts) ==
    LET input_ids == pad_sequence([i \in 1..Len(insts) |-> insts[i].input_ids],
                                  pad_token_id)
        labels == pad_sequence([i \in 1..Len(insts) |-> insts[i].labels],
                               IGNORE_INDEX)
    IN  [input_ids |-> input_ids, labels |-> labels,
         attention_mask |-> Ne(input_ids, pad_token_id)]

\* ------------------------------------------------------------------------
\* The data path: preprocess fills the dataset, the trainer hands its rows to
\* the collator (a dataset this small is one batch).
\* ------------------------------------------------------------------------
InitFmt0 ==
    /\ masked_func = <<>>
    /\ fmt_result = NoResult

InitData ==
    /\ \E n \in 0..MaxExamples :
          /\ sources \in [1..n -> Texts(MaxTextLen)]
          /\ targets \in [1..n -> Texts(MaxTextLen)]
    /\ data_dict = NoResult
    /\ instances = <<>>
    /\ collated = NoResult
    /\ InitFmt0
    /\ InitTrain0

CallPreprocess ==
    /\ ~data_dict.called
    /\ data_dict' = [called |-> TRUE] @@ preprocess(sources, targets)
    /\ UNCHANGED <<sources, targets, instances, collated, fmt_vars, train_vars>>

CallCollator ==
    /\ data_dict.called
    /\ ~collated.called
    /\ Len(data_dict.input_ids) > 0
    /\ instances' = [i \in 1..Len(data_dict.input_ids) |->
                        [input_ids |-> data_dict.input_ids[i],
                         labels |-> data_dict.labels[i]]]
    /\ collated' = [called |-> TRUE] @@ collate(instances')
    /\ UNCHANGED <<sources, targets, data_dict, fmt_vars, train_vars>>

NextData == CallPreprocess \/ CallCollator

SpecData == InitData /\ [][NextData]_vars

\* ------------------------------------------------------------------------
\* train(): one process per rank.  A launch is either a plain python run (one
\* process, local_rank = -1) or a distributed launch on one node with ranks
\* 0 .. world-1 (local_rank = rank).  pc is the statement a process is at;
\* log lists the orchestration steps it has completed.
\* ------------------------------------------------------------------------
Procs == 0..(world - 1)

local_rank(p) == IF distributed THEN p ELSE -1

\* if training_args.local_rank > 0: torch.distributed.barrier()
CallsBarrierBeforeMap_above_one(lr) == lr > 1

CallsBarrierBeforeMap(lr) == lr > 0

\* if training_args.local_rank == 0: torch.distributed.barrier()
CallsBarrierAfterMap_never(lr) == FALSE

CallsBarrierAfterMap(lr) == lr = 0

Done(p, step) == log' = [log EXCEPT ![p] = Append(@, step)]

Goto(p, label) == pc' = [pc EXCEPT ![p] = label]

LoadTokenizer(p) ==
    /\ pc[p] = "load_tokenizer"
    /\ Goto(p, "load_model")
    /\ Done(p, "tokenizer")
    /\ UNCHANGED <<world, distributed, arrived, barrier_calls, cached, builders,
                   fmt_vars, data_vars>>

LoadModel(p) ==
    /\ pc[p] = "load_model"
    /\ Goto(p, "load_dataset")
    /\ Done(p, "model")
    /\ UNCHANGED <<world, distributed, arrived, barrier_calls, cached, builders,
                   fmt_vars, data_vars>>

LoadDataset(p) ==
    /\ pc[p] = "load_dataset"
    /\ Goto(p, "before_map")
    /\ Done(p, "dataset")
    /\ UNCHANGED <<world, distributed, arrived, barrier_calls, cached, builders,
                   fmt_vars, data_vars>>

\* the process enters the collective and blocks in it
EnterBarrier(p, label) ==
    /\ Goto(p, label)
    /\ arrived' = arrived \cup {p}
    /\ barrier_calls' = [barrier_calls EXCEPT ![p] = @ + 1]

BarrierBeforeMap(p) ==
    /\ pc[p] = "before_map"
    /\ IF CallsBarrierBeforeMap(local_rank(p))
       THEN EnterBarrier(p, "barrier_before_map")
       ELSE Goto(p, "map") /\ UNCHANGED <<arrived, barrier_calls>>
    /\ UNCHANGED <<world, distributed, log, cached, builders, fmt_vars, data_vars>>

\* the barrier returns once every process of the launch has entered it; a
\* barrier that counts only the processes still alive
BarrierRelease_ignores_failed(p) ==
    /\ pc[p] \in {"barrier_before_map", "barrier_after_map"}
    /\ \A q \in Procs : q \in arrived \/ pc[q] = "failed"
    /\ Goto(p, IF pc[p] = "barrier_before_map" THEN "map" ELSE "wrap")
    /\ UNCHANGED <<world, distributed, log, arrived, barrier_calls, cached,
                   builders, fmt_vars, data_vars>>

BarrierRelease(p) ==
    /\ pc[p] \in {"barrier_before_map", "barrier_after_map"}
    /\ arrived = Procs
    /\ Goto(p, IF pc[p] = "barrier_before_map" THEN "map" ELSE "wrap")
    /\ UNCHANGED <<world, distributed, log, arrived, barrier_calls, cached,
                   builders, fmt_vars, data_vars>>

\* raw_train_datasets.map(..., load_from_cache_file=True): without a cache
\* file the process computes the rows and writes the file, with one it loads
MapStart(p) ==
    /\ pc[p] = "map"
    /\ Goto(p, "mapping")
    /\ builders' = IF cached THEN builders ELSE builders \cup {p}
    /\ UNCHANGED <<world, distributed, log, arrived, barrier_calls, cached,
                   fmt_vars, data_vars>>

MapFinish(p) ==
    /\ pc[p] = "mapping"
    /\ Goto(p, "after_map")
    /\ Done(p, "map")
    /\ cached' = TRUE
    /\ builders' = builders \ {p}
    /\ UNCHANGED <<world, distributed, arrived, barrier_calls, fmt_vars, data_vars>>

BarrierAfterMap(p) ==
    /\ pc[p] = "after_map"
    /\ IF CallsBarrierAfterMap(local_rank(p))
       THEN EnterBarrier(p, "barrier_after_map")
       ELSE Goto(p, "wrap") /\ UNCHANGED <<arrived, barrier_calls>>
    /\ UNCHANGED <<world, distributed, log, cached, builders, fmt_vars, data_vars>>

\* model, lora_config = create_peft_config(model); model.train()
WrapAdapter(p) ==
    /\ pc[p] = "wrap"
    /\ Goto(p, "train")
    /\ Done(p, "adapter")
    /\ UNCHANGED <<world, distributed, arrived, barrier_calls, cached, builders,
                   fmt_vars, data_vars>>

\* trainer = Trainer(...); trainer.train()
Train(p) ==
    /\ pc[p] = "train"
    /\ Goto(p, "save")
    /\ Done(p, "train")
    /\ UNCHANGED <<world, distributed, arrived, barrier_calls, cached, builders,
                   fmt_vars, data_vars>>

\* the adapter saved without waiting for trainer.train()
SavePretrained_before_train(p) ==
    /\ pc[p] \in {"train", "save"}
    /\ Goto(p, "done")
    /\ Done(p, "save")
    /\ UNCHANGED <<world, distributed, arrived, barrier_calls, cached, builders,
                   fmt_vars, data_vars>>

\* model.save_pretrained(training_args.output_dir)
SavePretrained(p) ==
    /\ pc[p] = "save"
    /\ Goto(p, "done")
    /\ Done(p, "save")
    /\ UNCHANGED <<world, distributed, arrived, barrier_calls, cached, builders,
                   fmt_vars, data_vars>>

\* the statements that call into a library and can raise
Raising == {"load_tokenizer", "load_model", "load_dataset", "mapping", "wrap",
            "train", "save"}

\* an exception nobody catches ends the process; a cache file half written is
\* not a cache file
Fail(p) ==
    /\ pc[p] \in Raising
    /\ Goto(p, "failed")
    /\ builders' = builders \ {p}
    /\ UNCHANGED <<world, distributed, log, arrived, barrier_calls, cached,
                   fmt_vars, data_vars>>

Step(p) ==
    \/ LoadTokenizer(p)
    \/ LoadModel(p)
    \/ LoadDataset(p)
    \/ BarrierBeforeMap(p)
    \/ BarrierRelease(p)
    \/ MapStart(p)
    \/ MapFinish(p)
    \/ BarrierAfterMap(p)
    \/ WrapAdapter(p)
    \/ Train(p)
    \/ SavePretrained(p)

InitTrain ==
    /\ world \in 1..MaxRanks
    /\ distributed \in BOOLEAN
    /\ ~distributed => world = 1
    /\ pc = [p \in Procs |-> "load_tokenizer"]
    /\ log = [p \in Procs |-> <<>>]
    /\ arrived = {}
    /\ barrier_calls = [p \in Procs |-> 0]
    /\ cached \in BOOLEAN
    /\ builders = {}
    /\ InitFmt0
    /\ InitData0

NextTrainOK ==
    \/ \E p \in Procs : LoadTokenizer(p)
    \/ \E p \in Procs : LoadModel(p)
    \/ \E p \in Procs : LoadDataset(p)
    \/ \E p \in Procs : BarrierBeforeMap(p)
    \/ \E p \in Procs : BarrierRelease(p)
    \/ \E p \in Procs : MapStart(p)
    \/ \E p \in Procs : MapFinish(p)
    \/ \E p \in Procs : BarrierAfterMap(p)
    \/ \E p \in Procs : WrapAdapter(p)
    \/ \E p \in Procs : Train(p)
    \/ \E p \in Procs : SavePretrained(p)

NextTrain ==
    \/ NextTrainOK
    \/ \E p \in Procs : Fail(p)

\* every process is an operating-system process of its own: one that can
\* execute its next statement does so
Fairness == \A p \in 0..(MaxRanks - 1) : WF_vars(p \in Procs /\ Step(p))

\* a launch in which any library call may raise
SpecTrain == InitTrain /\ [][NextTrain]_vars /\ Fairness

\* a launch in which no step fails
SpecTrainOK == InitTrain /\ [][NextTrainOK]_vars /\ Fairness

\* ------------------------------------------------------------------------
\* Properties of build_masked_func (under SpecFmt)
\* ------------------------------------------------------------------------
Bracketed(s) == StartsWith(s, BEGIN_TOKEN) /\ EndsWith(s, END_TOKEN)

\* the text around the single placeholder is carried over as it is
AroundUnchanged(masked, out) ==
    \A i \in Occurrences(masked, PLACEHOLDER) :
        out = BEGIN_TOKEN \o SubSeq(masked, 1, i - 1) \o FILL_TOKEN
              \o SubSeq(masked, i + Len(PLACEHOLDER), Len(masked)) \o END_TOKEN

\* C2 as stated: with exactly one placeholder in the argument, the result
\* holds exactly one hole sentinel, starts with the begin sentinel, ends with
\* the end sentinel and keeps the text before and after the placeholder.
C2_Original ==
    (fmt_result.called /\ StrCount(masked_func, PLACEHOLDER) = 1) =>
        /\ StrCount(fmt_result.value, FILL_TOKEN) = 1
        /\ Bracketed(fmt_result.value)
        /\ AroundUnchanged(masked_func, fmt_result.value)

\* C2 amended: with exactly one placeholder in the argument, the result is
\* bracketed by the begin and end sentinels, keeps the text before and after
\* the placeholder, and holds one hole sentinel more than the argument held
\* literally (so exactly one when the argument holds none).
C2_Amended ==
    (fmt_result.called /\ StrCount(masked_func, PLACEHOLDER) = 1) =>
        /\ StrCount(fmt_result.value, FILL_TOKEN)
              = 1 + StrCount(masked_func, FILL_TOKEN)
        /\ (StrCount(masked_func, FILL_TOKEN) = 0
              => StrCount(fmt_result.value, FILL_TOKEN) = 1)
        /\ Bracketed(fmt_result.value)
        /\ AroundUnchanged(masked_func, fmt_result.value)

\* the formatter has run on text, placeholder, text
C2_Witness ==
    /\ fmt_result.called
    /\ StrCount(masked_func, PLACEHOLDER) = 1
    /\ StrCount(masked_func, FILL_TOKEN) = 0
    /\ \E i \in Occurrences(masked_func, PLACEHOLDER) :
          i > 1 /\ i + Len(PLACEHOLDER) <= Len(masked_func)

\* C7 as stated: with no placeholder or more than one, the call raises
\* nothing, the result is bracketed by the begin and end sentinels and holds
\* as many hole sentinels as the argument had placeholders.
C7_Original ==
    (fmt_result.called /\ StrCount(masked_func, PLACEHOLDER) # 1) =>
        /\ ~fmt_result.raised
        /\ Bracketed(fmt_result.value)
        /\ StrCount(fmt_result.value, FILL_TOKEN)
              = StrCount(masked_func, PLACEHOLDER)

\* C7 amended: with no placeholder or more than one, the call raises
\* nothing, the result is bracketed by the begin and end sentinels and holds
\* as many hole sentinels as the argument had placeholders plus the hole
\* sentinels the argument already held literally.
C7_Amended ==
    (fmt_result.called /\ StrCount(masked_func, PLACEHOLDER) # 1) =>
        /\ ~fmt_result.raised
        /\ Bracketed(fmt_result.value)
        /\ StrCount(fmt_result.value, FILL_TOKEN)
              = StrCount(masked_func, PLACEHOLDER)
                + StrCount(masked_func, FILL_TOKEN)

\* the formatter has run on an argument with two placeholders
C7_Witness ==
    /\ fmt_result.called
    /\ StrCount(masked_func, PLACEHOLDER) = 2

\* ------------------------------------------------------------------------
\* Properties of preprocess and of the collator (under SpecData)
\* ------------------------------------------------------------------------
\* number of non-pad tokens of the prompt tokenized alone
PromptSpan(i) == CountNe(Tokenizer(sources[i]), pad_token_id)

\* example i lost tokens to truncation
Truncated(i) ==
    Len(TokenizerNoTruncation(sources[i] \o targets[i])) > model_max_length

\* C1: for every prompt/target pair given to preprocess, truncated or not,
\* the labels are as long as the input ids, every position within the first
\* N positions (N = non-pad tokens of the prompt tokenized alone) holds
\* IGNORE_INDEX, and every later position holds the input id of that position.
C1_LabelsMaskPrompt ==
    data_dict.called =>
        /\ Len(data_dict.input_ids) = Len(sources)
        /\ Len(data_dict.labels) = Len(sources)
        /\ \A i \in 1..Len(sources) :
              LET ids == data_dict.input_ids[i]
                  lab == data_dict.labels[i]
              IN  /\ Len(lab) = Len(ids)
                  /\ \A j \in 1..Len(lab) :
                        /\ j <= PromptSpan(i) => lab[j] = IGNORE_INDEX
                        /\ j > PromptSpan(i) => lab[j] = ids[j]

\* preprocess has run on a pair that was truncated and still has a position
\* after the prompt span
C1_Witness ==
    /\ data_dict.called
    /\ \E i \in 1..Len(sources) :
          /\ Truncated(i)
          /\ PromptSpan(i) < Len(data_dict.input_ids[i])
          /\ data_dict.labels[i][Len(data_dict.labels[i])] # IGNORE_INDEX

RowLen(i) == Len(instances[i].input_ids)

BatchWidth == MaxOf({RowLen(i) : i \in 1..Len(instances)})

\* C3: for a non-empty batch the collator returns input ids, labels and
\* attention mask of one shape (one row per example, each as wide as the
\* longest example), every row is the example followed by padding, and the
\* mask is TRUE at a position exactly when the input id there is not the pad id.
C3_CollatedShape ==
    collated.called =>
        /\ Len(collated.input_ids) = Len(instances)
        /\ Len(collated.labels) = Len(instances)
        /\ Len(collated.attention_mask) = Len(instances)
        /\ \A i \in 1..Len(instances) :
              /\ Len(collated.input_ids[i]) = BatchWidth
              /\ Len(collated.labels[i]) = BatchWidth
              /\ Len(collated.attention_mask[i]) = BatchWidth
              /\ SubSeq(collated.input_ids[i], 1, RowLen(i))
                    = instances[i].input_ids
              /\ SubSeq(collated.labels[i], 1, RowLen(i)) = instances[i].labels
              /\ \A j \in (RowLen(i) + 1)..BatchWidth :
                    collated.input_ids[i][j] = pad_token_id
              /\ \A j \in 1..BatchWidth :
                    collated.attention_mask[i][j]
                        <=> (collated.input_ids[i][j] # pad_token_id)

\* the collator has run on examples of different lengths
C3_Witness ==
    /\ collated.called
    /\ \E i, k \in 1..Len(instances) : RowLen(i) < RowLen(k)

\* C8: in every collated batch the attention mask is TRUE at every position
\* below the example's own length and FALSE at every position added by
\* padding, whatever the token ids are.
C8_MaskFollowsLength ==
    collated.called =>
        \A i \in 1..Len(instances) :
            \A j \in 1..BatchWidth :
                collated.attention_mask[i][j] <=> (j <= RowLen(i))

\* C9: in every collated batch each label position added by padding holds
\* IGNORE_INDEX, which is not the pad id, and each label position below the
\* example's own length holds the example's label.
C9_PaddingIgnored ==
    collated.called =>
        \A i \in 1..Len(instances) :
            \A j \in 1..BatchWidth :
                /\ j > Len(instances[i].labels) =>
                      /\ collated.labels[i][j] = IGNORE_INDEX
                      /\ collated.labels[i][j] # pad_token_id
                /\ j <= Len(instances[i].labels) =>
                      collated.labels[i][j] = instances[i].labels[j]

\* the collator has padded the labels of a shorter example, in a batch where
\* a longer example holds a token id as label at that position
C9_Witness ==
    /\ collated.called
    /\ \E i, k \in 1..Len(instances) :
          /\ RowLen(i) < RowLen(k)
          /\ collated.labels[k][RowLen(k)] # IGNORE_INDEX
          /\ collated.labels[i][RowLen(k)] = IGNORE_INDEX

\* ------------------------------------------------------------------------
\* Properties of train() (under SpecTrain and SpecTrainOK)
\* ------------------------------------------------------------------------
RankRange == 0..(MaxRanks - 1)

StepOrder == <<"tokenizer", "model", "dataset", "map", "adapter", "train", "save">>

IsPrefix(s, t) == Len(s) <= Len(t) /\ SubSeq(t, 1, Len(s)) = s

Has(p, step) == \E k \in 1..Len(log[p]) : log[p][k] = step

\* p is inside map() or has returned from it
StartedMap(p) == pc[p] = "mapping" \/ Has(p, "map")

AtBarrier(p) == pc[p] \in {"barrier_before_map", "barrier_after_map"}

\* p has returned from the barrier
PastBarrier(p) == p \in arrived /\ ~AtBarrier(p)

C5_FixedOrder ==
    \A p \in Procs :
        /\ IsPrefix(log[p], StepOrder)
        /\ Has(p, "save") => (Has(p, "train") /\ pc[p] = "done")
        /\ Cardinality({k \in 1..Len(log[p]) : log[p][k] = "save"}) <= 1
        /\ pc[p] = "failed" => ~Has(p, "save")

\* every process of a distributed launch has saved its adapter
C5_Witness ==
    /\ distributed
    /\ world >= 2
    /\ \A p \in Procs : log[p] = StepOrder

FailureIsFinal ==
    [][\A p \in Procs :
          pc[p] = "failed" => (pc'[p] = "failed" /\ log'[p] = log[p])]_vars

SomeFailed == \E q \in Procs : pc[q] = "failed"

\* C6 as stated: a failed process stays failed with nothing redone, and a
\* process waiting at the barrier after some rank has failed does not wait
\* there forever.
C6_Original ==
    /\ FailureIsFinal
    /\ \A p \in RankRange :
          (p \in Procs /\ AtBarrier(p) /\ SomeFailed)
              ~> (p \in Procs /\ ~AtBarrier(p))

\* C6 amended: a failed process stays failed with nothing retried or
\* recovered, and the script does nothing for its peers: once a rank has
\* failed without having entered the barrier, no rank ever returns from the
\* barrier, so a rank that waits there stays blocked for as long as the
\* script alone decides.
C6_Amended ==
    /\ FailureIsFinal
    /\ [](\A q \in Procs :
            (pc[q] = "failed" /\ q \notin arrived)
                => \A p \in Procs : ~PastBarrier(p))
    /\ [][\A q \in Procs :
            (pc[q] = "failed" /\ q \notin arrived)
                => \A p \in Procs : AtBarrier(p) => AtBarrier(p)']_vars

\* a rank has failed inside its map while another waits at the barrier
C6_Witness ==
    /\ distributed
    /\ pc[0] = "failed"
    /\ ~Has(0, "map")
    /\ \E p \in Procs : AtBarrier(p)

ReachedTraining(p) == pc[p] \in {"train", "save", "done"}

\* C10: when no step fails, every rank calls the barrier exactly once in a
\* distributed launch (ranks above 0 before their map, rank 0 after its
\* map) and never in a plain run, and every rank eventually finishes its map
\* and reaches training.
C10_BarrierCompletes ==
    /\ [](\A p \in Procs :
            /\ barrier_calls[p] <= 1
            /\ ~distributed => barrier_calls[p] = 0
            /\ (distributed /\ local_rank(p) > 0)
                  => (barrier_calls[p] = 1 <=> (AtBarrier(p) \/ StartedMap(p)
                                                \/ pc[p] = "map"))
            /\ (distributed /\ local_rank(p) = 0)
                  => (barrier_calls[p] = 1 => Has(p, "map"))
            /\ ReachedTraining(p)
                  => (Has(p, "map")
                      /\ barrier_calls[p] = IF distributed THEN 1 ELSE 0))
    /\ \A p \in RankRange : <>(p \in Procs => ReachedTraining(p))

\* every rank of a distributed launch has passed the barrier and is done
C10_Witness ==
    /\ distributed
    /\ world >= 2
    /\ arrived = Procs
    /\ \A p \in Procs : pc[p] = "done"

====
